---- MODULE Spec2Model ----
(***************************************************************************)
(* MsczReader (src/engraving/io/msczreader.cpp): the read-only accessor of *)
(* a score container stored either as a zip archive behind a QIODevice or  *)
(* as a plain directory tree.  Strings are sequences of one-character      *)
(* strings, byte arrays are sequences of numbers.                          *)
(***************************************************************************)
EXTENDS Integers, Sequences, FiniteSets, TLC

(* ---------------------------------------------------------------------- *)
(* Bounds                                                                  *)
(* ---------------------------------------------------------------------- *)
NumDevices == 2

(* ---------------------------------------------------------------------- *)
(* QString operations used by the reader                                   *)
(* ---------------------------------------------------------------------- *)
Sep == "/"

endsWith(s, suffix) ==
    /\ Len(s) >= Len(suffix)
    /\ SubSeq(s, Len(s) - Len(suffix) + 1, Len(s)) = suffix

startsWith(s, prefix) ==
    /\ Len(s) >= Len(prefix)
    /\ SubSeq(s, 1, Len(prefix)) = prefix

\* QString::mid(position): the characters from the 0-based position to the end
mid(s, position) ==
    IF position >= Len(s) THEN << >> ELSE SubSeq(s, position + 1, Len(s))

\* index of the last separator of s, 0 when there is none
LastSep(s) ==
    IF \E i \in 1..Len(s) : s[i] = Sep
    THEN CHOOSE i \in 1..Len(s) : s[i] = Sep /\ \A j \in (i + 1)..Len(s) : s[j] # Sep
    ELSE 0

\* QFileInfo(path).fileName(): what follows the last separator
fileName(path) == mid(path, LastSep(path))

\* QFileInfo(path).absolutePath() of an absolute path: the path without its
\* file name and without a trailing separator, "/" for a file of the root,
\* empty for an empty path
absolutePath(path) ==
    IF path = << >> THEN << >>
    ELSE IF LastSep(path) <= 1 THEN << Sep >>
    ELSE SubSeq(path, 1, LastSep(path) - 1)

(* ---------------------------------------------------------------------- *)
(* Well-known names of the container layout                                *)
(* ---------------------------------------------------------------------- *)
MscxSuffix == << ".", "m", "s", "c", "x" >>
PicturesDir == << "P", "i", "c", "t", "u", "r", "e", "s", "/" >>
ThumbnailPath ==
    << "T", "h", "u", "m", "b", "n", "a", "i", "l", "s", "/",
       "t", "h", "u", "m", "b", "n", "a", "i", "l", ".", "p", "n", "g" >>
AudioPath == << "a", "u", "d", "i", "o", ".", "o", "g", "g" >>
AudioSettingsPath ==
    << "a", "u", "d", "i", "o", "s", "e", "t", "t", "i", "n", "g", "s",
       ".", "j", "s", "o", "n" >>

(* ---------------------------------------------------------------------- *)
(* Containers: the entries of a package in backend enumeration order       *)
(* ---------------------------------------------------------------------- *)
File(path, data) == [path |-> path, data |-> data, isFile |-> TRUE]
Folder(path) == [path |-> path, data |-> << >>, isFile |-> FALSE]

ScoreMscx == << "S" >> \o MscxSuffix
OtherMscx == << "T" >> \o MscxSuffix
PictureA == PicturesDir \o << "a" >>
PictureB == PicturesDir \o << "b" >>
PictureMscx == PicturesDir \o << "x" >> \o MscxSuffix

\* Score.mscx, two pictures and a thumbnail, no audio
ExampleContainer ==
    << File(ScoreMscx, << 1 >>), Folder(PicturesDir), File(PictureA, << 2 >>),
       File(PictureB, << 3 >>), File(ThumbnailPath, << 4 >>) >>
\* no primary document
NoMscxContainer ==
    << File(PictureB, << 5 >>), File(AudioPath, << 6 >>),
       File(AudioSettingsPath, << 7 >>) >>
\* several primary-document candidates, one of them under Pictures/
MultiMscxContainer ==
    << File(OtherMscx, << 8 >>), File(PictureA, << 9 >>),
       File(ScoreMscx, << 10 >>), File(PictureMscx, << 11 >>) >>
OtherOrderContainer ==
    << File(PictureMscx, << 11 >>), File(ScoreMscx, << 10 >>),
       File(OtherMscx, << 8 >>) >>
EmptyContainer == << >>

Containers ==
    << ExampleContainer, NoMscxContainer, MultiMscxContainer,
       OtherOrderContainer, EmptyContainer >>

\* the environments: container i beside the next one of the list
ContentPair(i) == << Containers[i], Containers[(i % Len(Containers)) + 1] >>

(* ---------------------------------------------------------------------- *)
(* Values                                                                  *)
(* ---------------------------------------------------------------------- *)
Zip == "Zip"
Dir == "Dir"
Modes == { Zip, Dir }

\* QIODevice pointers: NoDevice is nullptr
NoDevice == 0
Devices == 1..NumDevices

\* MQZipReader pointer: NoReader is nullptr, else the device it was built on
NoReader == [made |-> FALSE, dev |-> NoDevice]
ReaderOn(device) == [made |-> TRUE, dev |-> device]

\* directories that exist in the file system, and paths a caller binds
DirD == << "/", "d" >>
DirE == << "/", "e" >>
DirRoots == { DirD, DirE }
FilePaths ==
    { DirD \o << "/", "f" >>, DirE \o << "/", "f" >>, << "/", "n", "/", "f" >> }

\* image names a caller asks for: one that containers hold, one that none holds
ImageNames == { << "a" >>, << "m" >> }

EmptyMeta == [mscxFileName |-> << >>, imageFilePaths |-> << >>]
NoSource == [mode |-> "none", dev |-> NoDevice, root |-> << >>]

VARIABLES
    env,                \* the environment: which pair of containers exists
    devOpen,            \* QIODevice::isOpen() of every device
    released,           \* devices the reader has deleted
    pc,                 \* "alive", "destroyed" or "crashed"
    m_filePath, m_mode, m_device, m_selfDeviceOwner, m_reader, m_meta,
    lastOp, arg, ret,   \* the last call, its argument and what it returned
    ub,                 \* the last call dereferenced a null device
    scanSrc,            \* the source the last enumeration pass read
    enumerated,         \* the last call ran the enumeration pass
    opened              \* an open() of this reader has returned true

vars ==
    << env, devOpen, released, pc, m_filePath, m_mode, m_device,
       m_selfDeviceOwner, m_reader, m_meta, lastOp, arg, ret, ub, scanSrc,
       enumerated, opened >>

(* ---------------------------------------------------------------------- *)
(* The environment: archives behind devices, a directory tree              *)
(* ---------------------------------------------------------------------- *)
\* the archive a device holds: odd devices the first container, even the second
ArchiveOf(device) ==
    IF device % 2 = 1 THEN ContentPair(env)[1] ELSE ContentPair(env)[2]

\* the tree under a directory: /d holds the first container, /e the second
TreeOf(root) ==
    IF root = DirD THEN ContentPair(env)[1]
    ELSE IF root = DirE THEN ContentPair(env)[2] ELSE << >>

IsFileEntry(e) == e.isFile

\* MQZipReader::fileInfoList() with MQZipReader::status() after it
ZipFileInfoList(device) ==
    IF devOpen[device]
    THEN [list |-> ArchiveOf(device), status |-> "NoError"]
    ELSE [list |-> << >>, status |-> "FileOpenError"]

\* MQZipReader::fileData(name) with MQZipReader::status() after it: the first
\* entry of that exact path, empty when there is none
ZipFileData(device, name) ==
    IF ~devOpen[device] THEN [data |-> << >>, status |-> "FileOpenError"]
    ELSE LET list == ArchiveOf(device)
             hits == { i \in 1..Len(list) : list[i].path = name }
         IN IF hits = { } THEN [data |-> << >>, status |-> "NoError"]
            ELSE LET first == CHOOSE i \in hits : \A j \in hits : i <= j
                 IN [data |-> list[first].data, status |-> "NoError"]

\* QDirIterator(root, Files | NoSymLinks, Subdirectories): the path of every
\* file under root, each as root + "/" + its path below root
DirIterate(root) ==
    LET files == SelectSeq(TreeOf(root), IsFileEntry)
    IN [i \in 1..Len(files) |-> root \o << Sep >> \o files[i].path]

\* the operating system's view of a path: repeated separators are one
RECURSIVE CleanPath(_)
CleanPath(path) ==
    IF Len(path) < 2 THEN path
    ELSE IF path[1] = Sep /\ path[2] = Sep THEN CleanPath(Tail(path))
    ELSE << path[1] >> \o CleanPath(Tail(path))

\* the data of the file at a path below a directory, if there is such a file
FileBelow(root, relative) ==
    LET tree == TreeOf(root)
        hits == { i \in DOMAIN tree : tree[i].isFile /\ tree[i].path = relative }
    IN IF hits = { } THEN [ok |-> FALSE, data |-> << >>]
       ELSE [ok |-> TRUE, data |-> tree[CHOOSE i \in hits : TRUE].data]

\* QFile(path).open(ReadOnly) and readAll(): only an existing file opens
FileRead(path) ==
    LET clean == CleanPath(path)
        roots == { root \in DirRoots : startsWith(clean, root \o << Sep >>) }
    IN IF roots = { } THEN [ok |-> FALSE, data |-> << >>]
       ELSE LET root == CHOOSE r \in roots : TRUE
            IN FileBelow(root, mid(clean, Len(root) + 1))

\* QFileInfo::exists(path) of a directory path
DirExists(path) == path \in DirRoots

(* ---------------------------------------------------------------------- *)
(* The reader's helpers                                                    *)
(* ---------------------------------------------------------------------- *)
\* MsczReader::rootPath()
rootPath(mode, filePath) ==
    IF mode = Zip THEN << Sep >> ELSE absolutePath(filePath)

\* Meta::isValid(): a primary document or a classified path has been recorded
isValid(meta) == meta.mscxFileName # << >> \/ meta.imageFilePaths # << >>

\* the lambda fileList of meta(): the relative paths handed to classification
fileList(mode, device, filePath) ==
    IF mode = Zip
    THEN LET files == SelectSeq(ZipFileInfoList(device).list, IsFileEntry)
         IN [i \in 1..Len(files) |-> files[i].path]
    ELSE LET root == rootPath(mode, filePath)
             found == DirIterate(root)
         IN [i \in 1..Len(found) |-> mid(found[i], Len(root))]

\* ClassifyOne with the extension test lost: whatever is no picture is taken
\* for the primary document
ClassifyOneAnyDocument(meta, path) ==
    IF startsWith(path, PicturesDir)
    THEN [meta EXCEPT !.imageFilePaths = Append(@, path)]
    ELSE [meta EXCEPT !.mscxFileName = path]

\* ClassifyOne with its two tests in the other order
ClassifyOnePicturesFirst(meta, path) ==
    IF startsWith(path, PicturesDir)
    THEN [meta EXCEPT !.imageFilePaths = Append(@, path)]
    ELSE IF endsWith(path, MscxSuffix)
    THEN [meta EXCEPT !.mscxFileName = path]
    ELSE meta

\* the classification of one path
ClassifyOne(meta, path) ==
    IF endsWith(path, MscxSuffix)
    THEN [meta EXCEPT !.mscxFileName = path]
    ELSE IF startsWith(path, PicturesDir)
    THEN [meta EXCEPT !.imageFilePaths = Append(@, path)]
    ELSE meta

\* the classification loop of meta(), run over m_meta as it stands
RECURSIVE Classify(_, _)
Classify(meta, files) ==
    IF files = << >> THEN meta
    ELSE Classify(ClassifyOne(meta, Head(files)), Tail(files))

\* MsczReader::fileData(fileName)
fileData(mode, device, filePath, name) ==
    IF mode = Zip
    THEN LET r == ZipFileData(device, name)
         IN IF r.status # "NoError" THEN << >> ELSE r.data
    ELSE LET r == FileRead(rootPath(mode, filePath) \o << Sep >> \o name)
         IN IF ~r.ok THEN << >> ELSE r.data

\* the names imageFileNames() builds from the image paths
BaseNames(paths) == [i \in 1..Len(paths) |-> fileName(paths[i])]

\* the source the reader reads in its current mode
CurSrc ==
    [mode |-> m_mode,
     dev |-> IF m_mode = Zip THEN m_device ELSE NoDevice,
     root |-> rootPath(m_mode, m_filePath)]

\* a call in Zip mode goes through the null m_device
NullDevice == m_mode = Zip /\ m_device = NoDevice

\* MsczReader::reader(): m_reader after a call that needs the archive
readerAfterUse ==
    IF m_mode = Zip /\ ~m_reader.made THEN ReaderOn(m_device) ELSE m_reader

\* m_meta after meta()
metaAfter ==
    IF isValid(m_meta) THEN m_meta
    ELSE Classify(m_meta, fileList(m_mode, m_device, m_filePath))

(* ---------------------------------------------------------------------- *)
(* Construction                                                            *)
(* ---------------------------------------------------------------------- *)
envInit ==
    /\ env \in DOMAIN Containers
    /\ devOpen = [d \in Devices |-> FALSE]
    /\ released = { }

\* MsczReader(filePath, mode)
ctorPath ==
    /\ m_filePath \in FilePaths
    /\ m_mode \in Modes
    /\ m_device = NoDevice
    /\ m_selfDeviceOwner = FALSE

\* MsczReader(device)
ctorDevice ==
    /\ m_filePath = << >>
    /\ m_mode = Zip
    /\ m_device \in Devices
    /\ m_selfDeviceOwner = FALSE

Init ==
    /\ envInit
    /\ ctorPath \/ ctorDevice
    /\ m_reader = NoReader
    /\ m_meta = EmptyMeta
    /\ pc = "alive"
    /\ lastOp = "ctor" /\ arg = << >> /\ ret = << >>
    /\ ub = FALSE
    /\ scanSrc = NoSource
    /\ enumerated = FALSE
    /\ opened = FALSE

(* ---------------------------------------------------------------------- *)
(* Calls                                                                   *)
(* ---------------------------------------------------------------------- *)
\* a call that returns r
Called(op, a, r) ==
    /\ lastOp' = op /\ arg' = a /\ ret' = r
    /\ ub' = FALSE
    /\ pc' = pc
    /\ opened' = (opened \/ (op = "open" /\ r = TRUE))

\* a call through the null m_device: the process dies, or the call returns
\* whatever the read of address zero gave
nullDeref(op, a, garbage) ==
    /\ lastOp' = op /\ arg' = a
    /\ ub' = TRUE
    /\ \/ pc' = "crashed" /\ ret' = << >>
       \/ pc' = pc /\ ret' \in garbage
    /\ UNCHANGED opened

\* open that opens the stream without asking whether it is open already
openAlwaysOpens ==
    /\ pc = "alive"
    /\ enumerated' = FALSE
    /\ IF NullDevice
       THEN nullDeref("open", << >>, BOOLEAN) /\ UNCHANGED devOpen
       ELSE IF m_mode = Zip
       THEN \E ok \in BOOLEAN :
               /\ devOpen' = [devOpen EXCEPT ![m_device] = ok]
               /\ Called("open", << >>, ok)
       ELSE /\ Called("open", << >>, DirExists(rootPath(m_mode, m_filePath)))
            /\ UNCHANGED devOpen
    /\ UNCHANGED << env, released, m_filePath, m_mode, m_device,
                    m_selfDeviceOwner, m_reader, m_meta, scanSrc >>

\* open that drops the archive handle when the stream does not open
openFailureDropsReader ==
    /\ pc = "alive"
    /\ enumerated' = FALSE
    /\ IF NullDevice
       THEN nullDeref("open", << >>, BOOLEAN) /\ UNCHANGED << devOpen, m_reader >>
       ELSE IF m_mode = Zip
       THEN IF devOpen[m_device]
            THEN Called("open", << >>, TRUE) /\ UNCHANGED << devOpen, m_reader >>
            ELSE \E ok \in BOOLEAN :
                    /\ devOpen' = [devOpen EXCEPT ![m_device] = ok]
                    /\ m_reader' = IF ok THEN m_reader ELSE NoReader
                    /\ Called("open", << >>, ok)
       ELSE /\ Called("open", << >>, DirExists(rootPath(m_mode, m_filePath)))
            /\ UNCHANGED << devOpen, m_reader >>
    /\ UNCHANGED << env, released, m_filePath, m_mode, m_device,
                    m_selfDeviceOwner, m_meta, scanSrc >>

\* MsczReader::open()
open ==
    /\ pc = "alive"
    /\ enumerated' = FALSE
    /\ IF NullDevice
       THEN nullDeref("open", << >>, BOOLEAN) /\ UNCHANGED devOpen
       ELSE IF m_mode = Zip
       THEN IF devOpen[m_device]
            THEN Called("open", << >>, TRUE) /\ UNCHANGED devOpen
            ELSE \E ok \in BOOLEAN :
                    /\ devOpen' = [devOpen EXCEPT ![m_device] = ok]
                    /\ Called("open", << >>, ok)
       ELSE /\ Called("open", << >>, DirExists(rootPath(m_mode, m_filePath)))
            /\ UNCHANGED devOpen
    /\ UNCHANGED << env, released, m_filePath, m_mode, m_device,
                    m_selfDeviceOwner, m_reader, m_meta, scanSrc >>

\* the devices close() closes: the one under m_reader, then m_device
closedByClose == { m_device } \cup (IF m_reader.made THEN { m_reader.dev } ELSE { })

\* MsczReader::close()
close ==
    /\ pc = "alive"
    /\ enumerated' = FALSE
    /\ IF NullDevice
       THEN nullDeref("close", << >>, { << >> }) /\ UNCHANGED devOpen
       ELSE IF m_mode = Zip
       THEN /\ devOpen' = [d \in Devices |->
                              IF d \in closedByClose THEN FALSE ELSE devOpen[d]]
            /\ Called("close", << >>, << >>)
       ELSE Called("close", << >>, << >>) /\ UNCHANGED devOpen
    /\ UNCHANGED << env, released, m_filePath, m_mode, m_device,
                    m_selfDeviceOwner, m_reader, m_meta, scanSrc >>

\* isOpened that answers what open() found instead of asking again
isOpenedRemembersOpen ==
    /\ pc = "alive"
    /\ enumerated' = FALSE
    /\ IF NullDevice
       THEN nullDeref("isOpened", << >>, BOOLEAN)
       ELSE Called("isOpened", << >>, opened)
    /\ UNCHANGED << env, devOpen, released, m_filePath, m_mode, m_device,
                    m_selfDeviceOwner, m_reader, m_meta, scanSrc >>

\* MsczReader::isOpened()
isOpened ==
    /\ pc = "alive"
    /\ enumerated' = FALSE
    /\ IF NullDevice
       THEN nullDeref("isOpened", << >>, BOOLEAN)
       ELSE IF m_mode = Zip
       THEN Called("isOpened", << >>, devOpen[m_device])
       ELSE Called("isOpened", << >>, DirExists(rootPath(m_mode, m_filePath)))
    /\ UNCHANGED << env, devOpen, released, m_filePath, m_mode, m_device,
                    m_selfDeviceOwner, m_reader, m_meta, scanSrc >>

\* setDevice that keeps the archive handle of the stream it replaces
setDeviceKeepsReader(device) ==
    /\ pc = "alive"
    /\ enumerated' = FALSE
    /\ released' = IF m_device # NoDevice /\ m_selfDeviceOwner
                   THEN released \cup { m_device } ELSE released
    /\ m_device' = device
    /\ m_selfDeviceOwner' = FALSE
    /\ m_mode' = Zip
    /\ Called("setDevice", device, << >>)
    /\ UNCHANGED << env, devOpen, m_filePath, m_reader, m_meta, scanSrc >>

\* setDevice that binds the stream but leaves the mode as it is
setDeviceKeepsMode(device) ==
    /\ pc = "alive"
    /\ enumerated' = FALSE
    /\ m_reader' = NoReader
    /\ released' = IF m_device # NoDevice /\ m_selfDeviceOwner
                   THEN released \cup { m_device } ELSE released
    /\ m_device' = device
    /\ m_selfDeviceOwner' = FALSE
    /\ Called("setDevice", device, << >>)
    /\ UNCHANGED << env, devOpen, m_filePath, m_mode, m_meta, scanSrc >>

\* MsczReader::setDevice(device)
setDevice(device) ==
    /\ pc = "alive"
    /\ enumerated' = FALSE
    /\ m_reader' = NoReader
    /\ released' = IF m_device # NoDevice /\ m_selfDeviceOwner
                   THEN released \cup { m_device } ELSE released
    /\ m_device' = device
    /\ m_selfDeviceOwner' = FALSE
    /\ m_mode' = Zip
    /\ Called("setDevice", device, << >>)
    /\ UNCHANGED << env, devOpen, m_filePath, m_meta, scanSrc >>

\* setFilePath that also falls back to directory mode
setFilePathResetsMode(filePath) ==
    /\ pc = "alive"
    /\ enumerated' = FALSE
    /\ m_filePath' = filePath
    /\ m_reader' = NoReader
    /\ m_mode' = Dir
    /\ Called("setFilePath", filePath, << >>)
    /\ UNCHANGED << env, devOpen, released, m_device, m_selfDeviceOwner, m_meta,
                    scanSrc >>

\* MsczReader::setFilePath(filePath)
setFilePath(filePath) ==
    /\ pc = "alive"
    /\ enumerated' = FALSE
    /\ m_filePath' = filePath
    /\ m_reader' = NoReader
    /\ Called("setFilePath", filePath, << >>)
    /\ UNCHANGED << env, devOpen, released, m_mode, m_device,
                    m_selfDeviceOwner, m_meta, scanSrc >>

\* MsczReader::setMode(m)
setMode(m) ==
    /\ pc = "alive"
    /\ enumerated' = FALSE
    /\ m_mode' = m
    /\ Called("setMode", m, << >>)
    /\ UNCHANGED << env, devOpen, released, m_filePath, m_device,
                    m_selfDeviceOwner, m_reader, m_meta, scanSrc >>

\* the effect of a call of meta() on the reader
metaStep ==
    /\ m_meta' = metaAfter
    /\ scanSrc' = IF isValid(m_meta) THEN scanSrc ELSE CurSrc
    /\ enumerated' = ~isValid(m_meta)

\* MsczReader::meta()
meta ==
    /\ pc = "alive"
    /\ IF ~isValid(m_meta) /\ NullDevice
       THEN /\ nullDeref("meta", << >>, { EmptyMeta })
            /\ m_reader' = readerAfterUse
            /\ UNCHANGED << m_meta, scanSrc >>
            /\ enumerated' = FALSE
       ELSE /\ metaStep
            /\ m_reader' = IF isValid(m_meta) THEN m_reader ELSE readerAfterUse
            /\ Called("meta", << >>, metaAfter)
    /\ UNCHANGED << env, devOpen, released, m_filePath, m_mode, m_device,
                    m_selfDeviceOwner >>

\* MsczReader::imageFileNames()
imageFileNames ==
    /\ pc = "alive"
    /\ IF ~isValid(m_meta) /\ NullDevice
       THEN /\ nullDeref("imageFileNames", << >>, { << >> })
            /\ m_reader' = readerAfterUse
            /\ UNCHANGED << m_meta, scanSrc >>
            /\ enumerated' = FALSE
       ELSE /\ metaStep
            /\ m_reader' = IF isValid(m_meta) THEN m_reader ELSE readerAfterUse
            /\ Called("imageFileNames", << >>, BaseNames(metaAfter.imageFilePaths))
    /\ UNCHANGED << env, devOpen, released, m_filePath, m_mode, m_device,
                    m_selfDeviceOwner >>

\* MsczReader::readScoreFile()
readScoreFile ==
    /\ pc = "alive"
    /\ m_reader' = readerAfterUse
    /\ IF NullDevice
       THEN /\ nullDeref("readScoreFile", << >>, { << >>, << 0 >> })
            /\ UNCHANGED << m_meta, scanSrc >>
            /\ enumerated' = FALSE
       ELSE /\ metaStep
            /\ Called("readScoreFile", << >>,
                      fileData(m_mode, readerAfterUse.dev, m_filePath,
                               metaAfter.mscxFileName))
    /\ UNCHANGED << env, devOpen, released, m_filePath, m_mode, m_device,
                    m_selfDeviceOwner >>

\* a fixed-path read that resolves the metadata first, as readScoreFile does
readPathResolvesMeta(op, a, name) ==
    /\ pc = "alive"
    /\ m_reader' = readerAfterUse
    /\ IF NullDevice
       THEN /\ nullDeref(op, a, { << >>, << 0 >> })
            /\ UNCHANGED << m_meta, scanSrc >>
            /\ enumerated' = FALSE
       ELSE /\ metaStep
            /\ Called(op, a, fileData(m_mode, readerAfterUse.dev, m_filePath, name))
    /\ UNCHANGED << env, devOpen, released, m_filePath, m_mode, m_device,
                    m_selfDeviceOwner >>

\* a fixed-path read that gives up when the source is not open
readPathRequiresOpen(op, a, name) ==
    /\ pc = "alive"
    /\ enumerated' = FALSE
    /\ m_reader' = readerAfterUse
    /\ IF NullDevice
       THEN nullDeref(op, a, { << >>, << 0 >> })
       ELSE IF opened
       THEN Called(op, a, fileData(m_mode, readerAfterUse.dev, m_filePath, name))
       ELSE /\ lastOp' = op /\ arg' = a /\ ret' = << >>
            /\ ub' = FALSE
            /\ pc' = "crashed"
            /\ UNCHANGED opened
    /\ UNCHANGED << env, devOpen, released, m_filePath, m_mode, m_device,
                    m_selfDeviceOwner, m_meta, scanSrc >>

\* a read of a path that does not depend on meta()
readPath(op, a, name) ==
    /\ pc = "alive"
    /\ enumerated' = FALSE
    /\ m_reader' = readerAfterUse
    /\ IF NullDevice
       THEN nullDeref(op, a, { << >>, << 0 >> })
       ELSE Called(op, a, fileData(m_mode, readerAfterUse.dev, m_filePath, name))
    /\ UNCHANGED << env, devOpen, released, m_filePath, m_mode, m_device,
                    m_selfDeviceOwner, m_meta, scanSrc >>

\* MsczReader::readThumbnailFile()
readThumbnailFile == readPath("readThumbnailFile", << >>, ThumbnailPath)

\* MsczReader::readImageFile(fileName)
readImageFile(name) == readPath("readImageFile", name, PicturesDir \o name)

\* MsczReader::readAudioFile()
readAudioFile == readPath("readAudioFile", << >>, AudioPath)

\* MsczReader::readAudioSettingsJsonFile()
readAudioSettingsJsonFile ==
    readPath("readAudioSettingsJsonFile", << >>, AudioSettingsPath)

\* the destructor deleting m_device whoever owns it
dtorDeletesDevice ==
    /\ pc = "alive"
    /\ enumerated' = FALSE
    /\ lastOp' = "dtor" /\ arg' = << >> /\ ret' = << >>
    /\ UNCHANGED opened
    /\ ub' = NullDevice
    /\ pc' = "destroyed"
    /\ devOpen' = [d \in Devices |-> IF d = m_device THEN FALSE ELSE devOpen[d]]
    /\ m_reader' = NoReader
    /\ released' = IF m_device # NoDevice THEN released \cup { m_device } ELSE released
    /\ UNCHANGED << env, m_filePath, m_mode, m_device, m_selfDeviceOwner,
                    m_meta, scanSrc >>

\* MsczReader::~MsczReader()
dtor ==
    /\ pc = "alive"
    /\ enumerated' = FALSE
    /\ lastOp' = "dtor" /\ arg' = << >> /\ ret' = << >>
    /\ UNCHANGED opened
    /\ IF NullDevice
       THEN /\ ub' = TRUE
            /\ pc' \in { "crashed", "destroyed" }
            /\ UNCHANGED devOpen
       ELSE /\ ub' = FALSE
            /\ pc' = "destroyed"
            /\ devOpen' = IF m_mode = Zip
                          THEN [d \in Devices |->
                                  IF d \in closedByClose THEN FALSE ELSE devOpen[d]]
                          ELSE devOpen
    /\ m_reader' = IF pc' = "destroyed" THEN NoReader ELSE m_reader
    /\ released' = IF pc' = "destroyed" /\ m_selfDeviceOwner /\ m_device # NoDevice
                   THEN released \cup { m_device } ELSE released
    /\ UNCHANGED << env, m_filePath, m_mode, m_device, m_selfDeviceOwner,
                    m_meta, scanSrc >>

Next ==
    \/ open
    \/ close
    \/ isOpened
    \/ \E device \in Devices : setDevice(device)
    \/ \E filePath \in FilePaths : setFilePath(filePath)
    \/ \E m \in Modes : setMode(m)
    \/ meta
    \/ imageFileNames
    \/ readScoreFile
    \/ readThumbnailFile
    \/ \E name \in ImageNames : readImageFile(name)
    \/ readAudioFile
    \/ readAudioSettingsJsonFile
    \/ dtor

Spec == Init /\ [][Next]_vars

(* ---------------------------------------------------------------------- *)
(* What the claims speak of                                                *)
(* ---------------------------------------------------------------------- *)
\* the container behind the source the reader is bound to
BoundContainer ==
    IF m_mode = Zip
    THEN (IF m_device = NoDevice THEN << >> ELSE ArchiveOf(m_device))
    ELSE TreeOf(rootPath(m_mode, m_filePath))

\* the bound source can be read: an open stream, or directory mode
Readable == m_mode = Dir \/ (m_device # NoDevice /\ devOpen[m_device])

\* the cached metadata was enumerated from the source bound now
Fresh == scanSrc = CurSrc

IsMscxEntry(e) == e.isFile /\ endsWith(e.path, MscxSuffix)
IsImageEntry(e) ==
    e.isFile /\ startsWith(e.path, PicturesDir) /\ ~endsWith(e.path, MscxSuffix)

MscxEntries(container) == SelectSeq(container, IsMscxEntry)
ImageEntries(container) == SelectSeq(container, IsImageEntry)
EntryPaths(entries) == [i \in 1..Len(entries) |-> entries[i].path]
HasEntry(container, path) ==
    \E i \in DOMAIN container : container[i].isFile /\ container[i].path = path

\* the archive device that holds the same content as a directory
TwinDevice(root) == IF root = DirD THEN 1 ELSE 2

\* what an Archive-mode reader over an open device returns from an accessor
ZipMeta(device) == Classify(EmptyMeta, fileList(Zip, device, << >>))
ZipResult(op, a, device) ==
    CASE op = "meta" -> ZipMeta(device)
      [] op = "imageFileNames" -> BaseNames(ZipMeta(device).imageFilePaths)
      [] op = "readScoreFile" ->
            fileData(Zip, device, << >>, ZipMeta(device).mscxFileName)
      [] op = "readThumbnailFile" -> fileData(Zip, device, << >>, ThumbnailPath)
      [] op = "readImageFile" -> fileData(Zip, device, << >>, PicturesDir \o a)
      [] op = "readAudioFile" -> fileData(Zip, device, << >>, AudioPath)
      [] op = "readAudioSettingsJsonFile" ->
            fileData(Zip, device, << >>, AudioSettingsPath)

MetaReads == { "meta", "imageFileNames", "readScoreFile" }
PathReads ==
    { "readThumbnailFile", "readImageFile", "readAudioFile",
      "readAudioSettingsJsonFile" }

\* the path a fixed-path read asks the storage for
PathRead(op, a) ==
    CASE op = "readThumbnailFile" -> ThumbnailPath
      [] op = "readImageFile" -> PicturesDir \o a
      [] op = "readAudioFile" -> AudioPath
      [] op = "readAudioSettingsJsonFile" -> AudioSettingsPath

(* ---------------------------------------------------------------------- *)
(* Claims                                                                  *)
(* ---------------------------------------------------------------------- *)
\* C1: a Directory-mode reader returns from every role-based accessor what
\* an Archive-mode reader over the same content returns.  Stated for a
\* reader in Directory mode over an existing directory whose metadata was
\* enumerated from that directory, while the device that holds the same
\* content as an archive is open.
C1_ModesAgree ==
    ( /\ lastOp \in MetaReads \cup PathReads
      /\ ~ub
      /\ m_mode = Dir
      /\ DirExists(rootPath(m_mode, m_filePath))
      /\ Fresh
      /\ devOpen[TwinDevice(rootPath(m_mode, m_filePath))] )
    => ret = ZipResult(lastOp, arg, TwinDevice(rootPath(m_mode, m_filePath)))

\* C2: when metadata is cached and the stream or the path is rebound, the
\* metadata() call that follows returns the classification of the newly
\* bound source.
C2_RebindInvalidatesMeta ==
    [][ ( /\ lastOp \in { "setDevice", "setFilePath" }
          /\ isValid(m_meta)
          /\ Readable
          /\ lastOp' = "meta"
          /\ ~ub' )
        => ret' = Classify(EmptyMeta, fileList(m_mode, m_device, m_filePath)) ]_vars

\* C3: on a readable source whose metadata was enumerated from it,
\* listImageFileNames() is the list of the basenames of the container's
\* image entries (the Pictures/ entries that are no primary-document
\* candidates), in enumeration order: same length, none twice.
C3_ImageNamesMatchEntries ==
    (lastOp = "imageFileNames" /\ ~ub /\ Fresh /\ Readable)
    => ret = BaseNames(EntryPaths(ImageEntries(BoundContainer)))

\* C4: for a container with exactly one *.mscx entry, metadata() gives that
\* entry's relative path as primaryDocumentPath and readPrimaryDocument()
\* gives that entry's bytes, in either mode.
C4_SinglePrimaryDocument ==
    ( /\ ~ub /\ Fresh /\ Readable
      /\ Len(MscxEntries(BoundContainer)) = 1 )
    => /\ lastOp = "meta"
          => ret.mscxFileName = MscxEntries(BoundContainer)[1].path
       /\ lastOp = "readScoreFile"
          => ret = MscxEntries(BoundContainer)[1].data

\* C5 as claimed: the mode changes only from Directory to Archive, and only
\* by a stream rebind.
C5_OnlyRebindUpgrades ==
    [][ m_mode' # m_mode
        => (lastOp' = "setDevice" /\ m_mode = Dir /\ m_mode' = Zip) ]_vars

\* C5 amended: the mode changes only by setMode(m), to m, or by a stream
\* rebind, from Directory to Archive; no other call changes it.
C5_ModeChangesOnlyBySetters ==
    [][ m_mode' # m_mode
        => \/ (lastOp' = "setMode" /\ m_mode' = arg')
           \/ (lastOp' = "setDevice" /\ m_mode = Dir /\ m_mode' = Zip) ]_vars

\* a reader that enumerated a directory is in Archive mode right after a
\* stream rebind
C5_Witness ==
    /\ lastOp = "setDevice" /\ m_mode = Zip
    /\ scanSrc.mode = Dir /\ m_filePath \in FilePaths

\* C6: no call is ever executed in Archive mode against an absent stream.
C6_ArchiveModeHasStream == ~ub

\* C7: for a container without *.mscx entry, metadata() leaves
\* primaryDocumentPath empty and readPrimaryDocument() returns no bytes,
\* without failing, in both modes.
C7_NoPrimaryDocument ==
    ( /\ ~ub /\ Fresh
      /\ Len(MscxEntries(BoundContainer)) = 0 )
    => /\ lastOp \in MetaReads => pc = "alive"
       /\ lastOp = "meta" => ret.mscxFileName = << >>
       /\ lastOp = "readScoreFile" => ret = << >>

C7_Witness ==
    /\ lastOp = "readScoreFile" /\ ~ub /\ Fresh /\ Readable
    /\ BoundContainer # << >>
    /\ Len(MscxEntries(BoundContainer)) = 0
    /\ m_meta.imageFilePaths # << >>
    /\ ret = << >>

\* C8: for a container with several *.mscx entries, the primaryDocumentPath
\* of the first scan names the *.mscx entry that is last in enumeration
\* order (reading that path gives that entry's bytes), and no *.mscx path,
\* under Pictures/ or elsewhere, is among imagePaths.
C8_LastPrimaryDocumentWins ==
    ( /\ lastOp = "meta" /\ ~ub /\ Fresh /\ Readable
      /\ Len(MscxEntries(BoundContainer)) > 1 )
    => /\ ret.mscxFileName # << >>
       /\ fileData(m_mode, m_device, m_filePath, ret.mscxFileName)
            = MscxEntries(BoundContainer)[Len(MscxEntries(BoundContainer))].data
       /\ \A i \in DOMAIN ret.imageFilePaths :
            ~endsWith(ret.imageFilePaths[i], MscxSuffix)

C8_Witness ==
    /\ lastOp = "meta" /\ ~ub /\ Fresh /\ Readable
    /\ Len(MscxEntries(BoundContainer)) > 1
    /\ \E i \in DOMAIN BoundContainer :
          /\ IsMscxEntry(BoundContainer[i])
          /\ startsWith(BoundContainer[i].path, PicturesDir)
    /\ ret.imageFilePaths # << >>

\* C9: a fixed-path read of an entry the container does not hold returns
\* no bytes without failing, and leaves the mode, the bound path and stream
\* and the cached metadata as they were.
C9_AbsentEntryReadsEmpty ==
    [][ ( /\ lastOp' \in PathReads
          /\ ~ub'
          /\ ~HasEntry(BoundContainer, PathRead(lastOp', arg')) )
        => /\ ret' = << >>
           /\ pc' = "alive"
           /\ UNCHANGED << m_mode, m_filePath, m_device, m_meta >> ]_vars

C9_Witness ==
    /\ lastOp = "readImageFile" /\ arg = << "m" >> /\ ~ub
    /\ Readable /\ isValid(m_meta) /\ BoundContainer # << >>
    /\ ret = << >>

\* C10: the reader never releases a stream it has borrowed: every stream
\* is bound without transfer of ownership, and none is released, whether
\* the reader is rebound or destroyed.
C10_BorrowedStreamNeverReleased == released = { }

C10_Witness ==
    /\ pc = "destroyed" /\ ~ub
    /\ m_device \in Devices
    /\ lastOp = "dtor"
    /\ released = { }

\* C11: a stream rebind leaves the reader in Archive mode, bound to the new
\* stream and without backend handle, whatever the mode was; a path rebind
\* sets the path, discards the backend handle and leaves the mode and the
\* bound stream as they were.
C11_RebindEffects ==
    [][ /\ lastOp' = "setDevice"
           => /\ m_mode' = Zip
              /\ m_device' = arg'
              /\ m_reader' = NoReader
        /\ lastOp' = "setFilePath"
           => /\ m_filePath' = arg'
              /\ m_reader' = NoReader
              /\ UNCHANGED << m_mode, m_device >> ]_vars

\* a reader with a cached scan of a directory, right after a stream rebind
C11_Witness ==
    /\ lastOp = "setDevice" /\ m_mode = Zip /\ m_device = arg
    /\ m_reader = NoReader
    /\ scanSrc.mode = Dir /\ isValid(m_meta)

\* C16: the reader holds at most one backend handle, and a handle that
\* exists was built on the stream bound now, never on one bound before.
C16_HandleOnBoundStream == m_reader.made => m_reader.dev = m_device

\* a handle on the second stream of a reader that enumerated the first
C16_Witness ==
    /\ m_reader.made /\ m_reader.dev = m_device
    /\ m_device # NoDevice
    /\ scanSrc.mode = Zip /\ scanSrc.dev \in Devices \ { m_device }

\* what the storage holds at a path: the bytes of the entry, nothing when
\* there is no such entry or the source cannot be read
StoredAt(path) ==
    LET c == BoundContainer
        hits == { i \in DOMAIN c : c[i].isFile /\ c[i].path = path }
    IN IF ~Readable \/ hits = { } THEN << >>
       ELSE c[CHOOSE i \in hits : \A j \in hits : i <= j].data

\* C17: a fixed-path read leaves the metadata cache, the mode, the bound
\* path and the bound stream as they were (at most the backend handle is
\* made), and returns what the storage holds at the path, whether or not
\* metadata was resolved before.
C17_PathReadsIgnoreMeta ==
    [][ (lastOp' \in PathReads /\ ~ub')
        => /\ UNCHANGED << m_meta, scanSrc, m_mode, m_filePath, m_device,
                           m_selfDeviceOwner, devOpen >>
           /\ m_reader' \in { m_reader, ReaderOn(m_device) }
           /\ ret' = StoredAt(PathRead(lastOp', arg')) ]_vars

\* a thumbnail read that returned bytes while no metadata was ever resolved
C17_Witness ==
    /\ lastOp = "readThumbnailFile" /\ ~ub
    /\ scanSrc = NoSource /\ m_meta = EmptyMeta
    /\ ret # << >>

\* the reader and its storage, without the record of the last call
readerState ==
    << env, devOpen, released, pc, m_filePath, m_mode, m_device,
       m_selfDeviceOwner, m_reader, m_meta, scanSrc >>

\* C14: open() called again right after open() returns what the first call
\* returned and leaves the reader and the stream as the first call left
\* them, as long as the storage answers the same; on a stream that is open
\* the second call opens nothing, so it cannot fail.
C14_OpenIdempotent ==
    [][ (lastOp = "open" /\ ~ub /\ lastOp' = "open" /\ ~ub')
        => /\ ret = TRUE => ret' = TRUE
           /\ m_mode = Dir => ret' = ret
           /\ ret' = ret => UNCHANGED readerState ]_vars

\* the state after open() on a stream that is open: the one a second call
\* comes back to
C14_Witness ==
    /\ lastOp = "open" /\ ~ub /\ ret = TRUE
    /\ m_mode = Zip /\ devOpen[m_device]
    /\ ENABLED (open /\ ret' = TRUE /\ UNCHANGED readerState)

\* C18: an open() that returns false leaves the mode, the bound path and
\* stream, the ownership flag, the backend handle, the metadata cache and
\* the stream's state as they were, and in Archive mode a later open() can
\* still succeed.
C18_FailedOpenChangesNothing ==
    [][ (lastOp' = "open" /\ ~ub' /\ ret' = FALSE)
        => /\ UNCHANGED readerState
           /\ m_mode = Zip => ENABLED (open /\ ret' = TRUE) ]_vars

\* a failed open() of an Archive-mode reader that holds a handle and cached
\* metadata
C18_Witness ==
    /\ lastOp = "open" /\ ~ub /\ ret = FALSE
    /\ m_mode = Zip /\ m_reader.made /\ isValid(m_meta)
    /\ ~devOpen[m_device]

\* the reads of entry bytes
ByteReads == PathReads \cup { "readScoreFile" }

\* C12 as claimed: a read on a reader with a bound source on which no
\* open() has succeeded does not return: it fails hard.
C12_ReadBeforeOpenFails ==
    [][ (~opened /\ lastOp' \in ByteReads /\ ~ub') => pc' # "alive" ]_vars

\* C12 amended: a read on a reader with a bound source on which no open()
\* has succeeded returns as it does after open(): in Directory mode a
\* fixed-path read gives what the storage holds at the path, in Archive mode
\* a read on a stream that is not open gives no bytes; the reader stays
\* usable.
C12_ReadBeforeOpenReturns ==
    [][ (~opened /\ lastOp' \in ByteReads /\ ~ub')
        => /\ pc' = "alive"
           /\ (m_mode = Dir /\ lastOp' \in PathReads)
                => ret' = StoredAt(PathRead(lastOp', arg'))
           /\ (m_mode = Zip /\ ~devOpen[m_device]) => ret' = << >> ]_vars

\* bytes read in Directory mode by a reader that was never opened
C12_Witness ==
    /\ lastOp \in ByteReads /\ ~ub /\ ~opened
    /\ m_mode = Dir /\ pc = "alive"
    /\ ret # << >>

\* what isOpened() has to answer
IsOpenNow ==
    IF m_mode = Zip THEN devOpen[m_device]
    ELSE DirExists(rootPath(m_mode, m_filePath))

SourceThere ==
    IF m_mode = Zip THEN m_device # NoDevice /\ devOpen[m_device]
    ELSE DirExists(rootPath(m_mode, m_filePath))

\* C15: of metadata(), readPrimaryDocument() and listImageFileNames() calls
\* that follow one another on a source that is there, only the first
\* enumerates the storage, and none after it changes the snapshot,
\* whatever the container holds.
C15_SingleMaterialisation ==
    [][ ( /\ lastOp \in MetaReads /\ ~ub
          /\ SourceThere
          /\ lastOp' \in MetaReads /\ ~ub' )
        => (~enumerated' /\ m_meta' = m_meta) ]_vars

====
